---- MODULE Spec2Model ----
(***************************************************************************)
(* Model of src/app.py, the Vehicle Documentation Viewer.                  *)
(*                                                                         *)
(* The script is run top to bottom once per user interaction.  A run is    *)
(* modelled as the sequence of its blocks: the year selectbox, the year    *)
(* change handler (with the page loop of fetch_nhtsa_data unrolled one     *)
(* request per step), the make block, the version block and the main       *)
(* content block.  Between runs the session state and the memo of          *)
(* fetch_nhtsa_data persist; the script's own variables do not.  A run     *)
(* ends when the script returns or raises, or when Streamlit stops it at   *)
(* one of its calls because the user's next interaction has arrived.       *)
(*                                                                         *)
(* Text is a sequence of one-character strings, so that formatting a       *)
(* label and splitting it again are computed and not assumed.              *)
(***************************************************************************)
EXTENDS Integers, Sequences, FiniteSets, TLC

(***************************************************************************)
(* Bounds of the model.                                                    *)
(***************************************************************************)
\* The clock: datetime.now().year is read as this year.
CurrentYear == 1982
\* The remote listing holds at most this many non-empty pages per year.
MaxPages == 2

(***************************************************************************)
(* Values.                                                                 *)
(***************************************************************************)
\* Python's None for the year (line 65) ...
NoYear == 0
\* ... and for text values (lines 67, 69, 73).
None == <<"None">>
\* A script variable that no statement of the current run has assigned.
Undefined == <<"Undefined">>
\* session_state.nhtsa_data is None (line 71) or a DataFrame, possibly empty.
DataFrameNone == [isNone |-> TRUE, rows |-> <<>>]
DataFrame(rows) == [isNone |-> FALSE, rows |-> rows]

\* range(current_year, 1980, -1), line 19: the current year down to 1981.
get_year_range == [i \in 1..(CurrentYear - 1980) |-> CurrentYear + 1 - i]
years == get_year_range

Range(s) == {s[i] : i \in DOMAIN s}

(***************************************************************************)
(* Text: comparison as Python compares str, by code point.                 *)
(***************************************************************************)
Code(c) ==
    CASE c = " " -> 32 [] c = "(" -> 40 [] c = ")" -> 41 [] c = "-" -> 45
      [] c = "." -> 46 [] c = "/" -> 47 [] c = "1" -> 49 [] c = "2" -> 50
      [] c = "A" -> 65 [] c = "B" -> 66 [] c = "C" -> 67 [] c = "F" -> 70
      [] c = "G" -> 71 [] c = "_" -> 95

RECURSIVE StrLess(_, _)
StrLess(s, t) ==
    IF t = <<>> THEN FALSE
    ELSE IF s = <<>> THEN TRUE
    ELSE IF Head(s) = Head(t) THEN StrLess(Tail(s), Tail(t))
    ELSE Code(Head(s)) < Code(Head(t))

\* The character classes of the pattern of line 24: a-zA-Z, 0-9, \s.
\* A character that cannot be written in a string of this module is named
\* by its code point: "U+000B" is the vertical tab.
Letters ==
    {"a", "b", "c", "d", "e", "f", "g", "h", "i", "j", "k", "l", "m", "n",
     "o", "p", "q", "r", "s", "t", "u", "v", "w", "x", "y", "z",
     "A", "B", "C", "D", "E", "F", "G", "H", "I", "J", "K", "L", "M", "N",
     "O", "P", "Q", "R", "S", "T", "U", "V", "W", "X", "Y", "Z"}
DigitChars == <<"0", "1", "2", "3", "4", "5", "6", "7", "8", "9">>
\* \s of a str pattern: the 29 characters for which str.isspace() holds.
Whitespace ==
    {"\t", "\n", "U+000B", "\f", "\r", "U+001C", "U+001D", "U+001E", "U+001F",
     " ", "U+0085", "U+00A0", "U+1680", "U+2000", "U+2001", "U+2002",
     "U+2003", "U+2004", "U+2005", "U+2006", "U+2007", "U+2008", "U+2009",
     "U+200A", "U+2028", "U+2029", "U+202F", "U+205F", "U+3000"}

\* clean_filename(text), lines 22-26: the characters outside the three
\* classes and '-' are removed (line 24), then every space character is
\* replaced with an underscore (line 25).
clean_filename(text) ==
    LET kept(c) == c \in Letters \cup Range(DigitChars) \cup Whitespace \cup {"-"}
        cleaned == SelectSeq(text, kept)
    IN  [i \in DOMAIN cleaned |-> IF cleaned[i] = " " THEN "_" ELSE cleaned[i]]

\* An int formatted by an f-string (line 170): its decimal digits.
RECURSIVE str(_)
str(n) ==
    IF n < 10 THEN <<DigitChars[n + 1]>>
    ELSE str(n \div 10) \o <<DigitChars[(n % 10) + 1]>>

\* sorted(values) of a set of distinct texts, ascending (line 97).
RECURSIVE sorted(_)
sorted(S) ==
    IF S = {} THEN <<>>
    ELSE LET m == CHOOSE x \in S : \A z \in S \ {x} : StrLess(x, z)
         IN  <<m>> \o sorted(S \ {m})

(***************************************************************************)
(* The remote listing.  A row has the four columns the script reads.       *)
(***************************************************************************)
Row(m, n, d, u) == [manufacturername |-> m, name |-> n, letterdate |-> d, url |-> u]

\* Two letters of one make with one name and different dates.
PageA == << Row(<<"F">>, <<"A">>, <<"1">>, <<"u1">>),
            Row(<<"F">>, <<"A">>, <<"2">>, <<"u2">>) >>
\* Two letters of a second make with equal dates; one name contains " (".
PageB == << Row(<<"G">>, <<"A", " ", "(", "B">>, <<"1">>, <<"u3">>),
            Row(<<"G">>, <<"B">>, <<"1">>, <<"u4">>) >>
\* One more letter of the first make, dated as PageA's second; its name
\* has two spaces in a row.
PageC == << Row(<<"F">>, <<"B", " ", " ", "C">>, <<"2">>, <<"u5">>) >>
Catalogue == << PageA, PageB, PageC >>

\* What page p of year y holds when the remote has that page.
PageOf(y, p) == Catalogue[((y + p) % Len(Catalogue)) + 1]

\* The pages with rows the remote can hold for year y: MaxPages for the
\* current year, one page less for the year before it, none for the years
\* before that.
NumPages(y) ==
    IF CurrentYear - y >= 2 THEN 0 ELSE MaxPages - (CurrentYear - y)

\* What pd.read_csv(url) can do for page p of year y (line 37): give the
\* page's rows, give an empty frame, or raise.  Past NumPages(y) no rows
\* are left.
Response(e, r) == [error |-> e, rows |-> r]
Responses(y, p) ==
    {Response(FALSE, <<>>), Response(TRUE, <<>>)}
        \cup (IF p <= NumPages(y) THEN {Response(FALSE, PageOf(y, p))} ELSE {})

\* What requests.get(pdf_url) can do (line 157): answer 200 with the
\* document, answer another status, or raise.
Content(url) == <<"pdf">> \o url
Answer(x, s, b) == [raised |-> x, status_code |-> s, content |-> b]
Answers(url) ==
    { Answer(FALSE, 200, Content(url)), Answer(FALSE, 404, <<"html">>),
      Answer(TRUE, 0, <<>>) }

(***************************************************************************)
(* st.selectbox(label, options, index, placeholder), lines 79, 99, 121:    *)
(* the user's choice among the options; without an index the box may also  *)
(* be empty and give None.                                                 *)
(***************************************************************************)
\* Mutant of index_of: a stored value that is not among the options
\* preselects the first option.
index_of_first(options, current, none) ==
    IF current = none THEN {}
    ELSE IF current \in Range(options)
         THEN {CHOOSE i \in DOMAIN options :
                   /\ options[i] = current
                   /\ \A j \in DOMAIN options : options[j] = current => i <= j}
         ELSE {1}

\* The index argument of lines 82, 102 and 124, as the set of the
\* positions passed: none (index=None) when nothing is stored or what is
\* stored is not among the options, else the first position of the stored
\* value (list.index).
index_of(options, current, none) ==
    IF current = none \/ current \notin Range(options) THEN {}
    ELSE {CHOOSE i \in DOMAIN options :
              /\ options[i] = current
              /\ \A j \in DOMAIN options : options[j] = current => i <= j}

selectbox(options, current, none) ==
    Range(options) \cup
        (IF index_of(options, current, none) = {} THEN {none} ELSE {})

(***************************************************************************)
(* The frames the make and version blocks derive.                          *)
(***************************************************************************)
\* Mutant of makes: the column as it is, neither deduplicated nor sorted.
makes_column(data) == [i \in DOMAIN data.rows |-> data.rows[i].manufacturername]

\* sorted(nhtsa_data['manufacturername'].unique()), line 97.
makes(data) == sorted({data.rows[i].manufacturername : i \in DOMAIN data.rows})

\* nhtsa_data[nhtsa_data['manufacturername'] == selected_make], line 115.
filter_make(data, make) ==
    LET Is(r) == r.manufacturername = make IN SelectSeq(data.rows, Is)

\* sort_values('letterdate', ascending=False), line 116.  The default sort
\* kind is not stable, so rows with equal letterdate come in any order.
RECURSIVE SortedOrders(_, _)
SortedOrders(rows, I) ==
    IF I = {} THEN {<<>>}
    ELSE LET top == {i \in I : \A j \in I :
                        ~StrLess(rows[i].letterdate, rows[j].letterdate)}
         IN  UNION {{<<rows[i]>> \o rest : rest \in SortedOrders(rows, I \ {i})}
                        : i \in top}
sort_values(rows) == SortedOrders(rows, DOMAIN rows)

\* f"{x['name']} ({x['letterdate']})", line 119.
label(r) == r.name \o <<" ", "(">> \o r.letterdate \o <<")">>
versions(frame) == [i \in DOMAIN frame |-> label(frame[i])]

\* selected_version.split(" (")[0], line 139.
RECURSIVE split_first(_)
split_first(s) ==
    IF s = <<>> THEN <<>>
    ELSE IF Len(s) >= 2 /\ s[1] = " " /\ s[2] = "(" THEN <<>>
    ELSE <<Head(s)>> \o split_first(Tail(s))

\* make_data[make_data['name'] == version_name], line 140.
filter_name(frame, n) ==
    LET Is(r) == r.name = n IN SelectSeq(frame, Is)

VARIABLES
    session_state,    \* st.session_state, lines 64-73
    memo,             \* the st.cache_data memo of fetch_nhtsa_data, line 29
    pc,               \* the block of the script the run is at
    selected_year,    \* script variable, line 79
    selected_make,    \* script variable, line 99
    selected_version, \* script variable, line 121
    make_data,        \* script variable, lines 115-116
    pdf_url,          \* script variable, line 145
    all_data,         \* fetch_nhtsa_data's local, line 31
    page,             \* fetch_nhtsa_data's local, line 32
    ui,               \* the elements the current run has rendered so far
    outcome,          \* how the run ended, or "running"
    recorded,         \* the elements st.cache_data keeps with each result
    log,              \* history: per year, the requests and answers of the
                      \* call that returned or is under way
    abandoned,        \* history: the years whose last call was stopped
    first,            \* history: per year, what the first call returned
    docs,             \* history: the selections of the current year and make
                      \* whose document was fetched with status 200
    events            \* history: what the current run has done so far

vars == << session_state, memo, pc, selected_year, selected_make,
           selected_version, make_data, pdf_url, all_data, page, ui, outcome,
           recorded, log, abandoned, first, docs, events >>


year_set == Range(years)

\* The marker left when a handler discards bytes that were cached.
dropped(ss) == IF ss.pdf_bytes # None THEN {"dropped_pdf"} ELSE {}

\* Mutant of with_year: the year change leaves the stored make.
with_year_keep_make(ss, y) ==
    [ss EXCEPT !.selected_year = y, !.selected_version = None]

\* Mutant of with_year: the year change leaves the stored version.
with_year_keep_version(ss, y) ==
    [ss EXCEPT !.selected_year = y, !.selected_make = None]

\* Lines 88-90.
with_year(ss, y) ==
    [ss EXCEPT !.selected_year = y, !.selected_make = None,
               !.selected_version = None]

(***************************************************************************)
(* Lines 63-73: a new session.  Nothing is memoised, no run is under way.  *)
(***************************************************************************)
Init ==
    /\ session_state = [selected_year |-> NoYear, selected_make |-> None,
                        selected_version |-> None, nhtsa_data |-> DataFrameNone,
                        pdf_bytes |-> None]
    /\ memo = [y \in year_set |-> DataFrameNone]
    /\ pc = "idle"
    /\ selected_year = NoYear
    /\ selected_make = Undefined
    /\ selected_version = Undefined
    /\ make_data = <<>>
    /\ pdf_url = Undefined
    /\ all_data = <<>>
    /\ page = 1
    /\ ui = {}
    /\ outcome = "none"
    /\ recorded = [y \in year_set |-> {}]
    /\ log = [y \in year_set |-> <<>>]
    /\ abandoned = {}
    /\ first = [y \in year_set |-> DataFrameNone]
    /\ docs = {}
    /\ events = {}

(***************************************************************************)
(* Lines 60-84: a user interaction starts a run of the script with fresh   *)
(* script variables; the year selectbox gives the user's choice.           *)
(***************************************************************************)
BeginRun ==
    /\ pc = "idle"
    /\ \E v \in selectbox(years, session_state.selected_year, NoYear) :
           selected_year' = v
    /\ selected_make' = Undefined
    /\ selected_version' = Undefined
    /\ make_data' = <<>>
    /\ pdf_url' = Undefined
    /\ all_data' = <<>>
    /\ page' = 1
    /\ ui' = {}
    /\ outcome' = "running"
    /\ events' = {}
    /\ pc' = "year"
    /\ UNCHANGED << session_state, memo, recorded, log, abandoned, first, docs >>

\* The run ends: the script returned, raised, or was stopped by Streamlit at
\* one of its calls because the user's next interaction had arrived.
EndRun(how) ==
    /\ outcome' = how
    /\ pc' = "idle"

(***************************************************************************)
(* Lines 86-92, the year change handler.                                   *)
(***************************************************************************)
\* Line 87 is false: nothing to do.
YearUnchanged ==
    /\ pc = "year"
    /\ selected_year = session_state.selected_year
    /\ pc' = "make"
    /\ UNCHANGED << session_state, memo, selected_year, selected_make,
                    selected_version, make_data, pdf_url, all_data, page, ui,
                    outcome, recorded, log, abandoned, first, docs, events >>

\* Whether st.cache_data holds a result for this argument (line 29).
cache_hit(y) == ~memo[y].isNone

\* Lines 88-92 with fetch_nhtsa_data answered from the memo: no request is
\* sent, and the elements the memoised call had rendered are rendered again.
YearChangedCached ==
    /\ pc = "year"
    /\ selected_year # session_state.selected_year
    /\ cache_hit(selected_year)
    /\ session_state' =
           [with_year(session_state, selected_year) EXCEPT
               !.nhtsa_data = memo[selected_year], !.pdf_bytes = None]
    /\ ui' = ui \cup recorded[selected_year]
    /\ docs' = {}
    /\ events' = events \cup {"year"} \cup dropped(session_state)
    /\ pc' = "make"
    /\ UNCHANGED << memo, selected_year, selected_make, selected_version,
                    make_data, pdf_url, all_data, page, outcome, recorded,
                    log, abandoned, first >>

\* What a run has rendered of the messages of fetch_nhtsa_data when it is
\* stopped at one of them: nothing, or the error message of line 50 when
\* the stop comes at the message of line 54 or 56.
rendered_before_stop(msgs) == {{}} \cup {msgs \cap {"error_fetching"}}

\* Lines 88-90 with the run stopped where the memoised call's elements are
\* rendered again: the year is stored and make and version are reset, the
\* assignments of lines 91 and 92 are not reached.
YearChangedStopped ==
    /\ pc = "year"
    /\ selected_year # session_state.selected_year
    /\ cache_hit(selected_year)
    /\ session_state' = with_year(session_state, selected_year)
    /\ \E shown \in rendered_before_stop(recorded[selected_year]) :
           ui' = ui \cup shown
    /\ docs' = {}
    /\ events' = events \cup {"year"}
    /\ EndRun("stopped")
    /\ UNCHANGED << memo, selected_year, selected_make, selected_version,
                    make_data, pdf_url, all_data, page, recorded, log,
                    abandoned, first >>

\* Lines 88-90, then the call of line 91 enters fetch_nhtsa_data (31-32).
YearChangedFetch ==
    /\ pc = "year"
    /\ selected_year # session_state.selected_year
    /\ ~cache_hit(selected_year)
    /\ session_state' = with_year(session_state, selected_year)
    /\ all_data' = <<>>
    /\ page' = 1
    /\ docs' = {}
    /\ events' = events \cup {"year"}
    /\ pc' = "fetch"
    /\ UNCHANGED << memo, selected_year, selected_make, selected_version,
                    make_data, pdf_url, ui, outcome, recorded, log, abandoned,
                    first >>

(***************************************************************************)
(* Lines 34-51: one turn of the page loop of fetch_nhtsa_data.             *)
(***************************************************************************)
\* Mutant of next_page: the new page replaces what was accumulated.
next_page_replace(data, p, rows) == << rows, p + 1 >>

\* Lines 43-47: what a page with rows does to (all_data, page).
next_page(data, p, rows) == << data \o rows, p + 1 >>

\* Mutant of ends_loop: an empty page does not end the loop.
ends_loop_on_error_only(r) == r.error

\* Mutant of ends_loop: a failed page is skipped and the loop goes on.
ends_loop_skip_error(r) == ~r.error /\ r.rows = <<>>

\* Lines 40-41 and 49-51: whether the answer ends the loop.
ends_loop(r) == r.error \/ r.rows = <<>>

\* Lines 53-56: the message after the loop.
fetch_message(data) == IF data = <<>> THEN "warning_no_data" ELSE "success_found"

\* Lines 50 and 53-56: what the call renders when the answer r ends the loop.
fetch_messages(data, r) ==
    {fetch_message(data)} \cup (IF r.error THEN {"error_fetching"} ELSE {})

\* The guard on page caps the counter; the remote holds no rows past
\* MaxPages, so the loop as written never reaches the cap.
FetchPage ==
    /\ pc = "fetch"
    /\ page <= MaxPages + 1
    /\ \E r \in Responses(selected_year, page) :
        /\ log' = [log EXCEPT ![selected_year] =
                       Append(@, [page |-> page, response |-> r])]
        /\ IF ends_loop(r)
           THEN \* break, lines 53-58, and back in the handler lines 91-92
                /\ ui' = ui \cup fetch_messages(all_data, r)
                /\ memo' = [memo EXCEPT ![selected_year] = DataFrame(all_data)]
                /\ recorded' = [recorded EXCEPT ![selected_year] =
                                    fetch_messages(all_data, r)]
                /\ first' = [first EXCEPT ![selected_year] =
                                IF @.isNone THEN DataFrame(all_data) ELSE @]
                /\ session_state' =
                       [session_state EXCEPT
                           !.nhtsa_data = DataFrame(all_data), !.pdf_bytes = None]
                /\ events' = events \cup dropped(session_state)
                /\ pc' = "make"
                /\ UNCHANGED << all_data, page >>
           ELSE /\ all_data' = next_page(all_data, page, r.rows)[1]
                /\ page' = next_page(all_data, page, r.rows)[2]
                /\ UNCHANGED << session_state, memo, recorded, first, ui, pc,
                                events >>
    /\ abandoned' = abandoned \ {selected_year}
    /\ UNCHANGED << selected_year, selected_make, selected_version, make_data,
                    pdf_url, outcome, docs >>

\* Lines 34-56 with the run stopped at the message of line 50, 54 or 56:
\* the request was sent and ended the loop, the call does not return, so
\* nothing is memoised and lines 91-92 store nothing.
FetchStopped ==
    /\ pc = "fetch"
    /\ page <= MaxPages + 1
    /\ \E r \in Responses(selected_year, page) :
        /\ ends_loop(r)
        /\ \E shown \in rendered_before_stop(fetch_messages(all_data, r)) :
               ui' = ui \cup shown
    /\ log' = [log EXCEPT ![selected_year] = <<>>]
    /\ abandoned' = abandoned \cup {selected_year}
    /\ EndRun("stopped")
    /\ UNCHANGED << session_state, memo, selected_year, selected_make,
                    selected_version, make_data, pdf_url, all_data, page,
                    recorded, first, docs, events >>

(***************************************************************************)
(* Lines 94-110: the make block.                                           *)
(***************************************************************************)
\* The condition of line 95.
data_loaded ==
    /\ selected_year # NoYear
    /\ ~session_state.nhtsa_data.isNone
    /\ session_state.nhtsa_data.rows # <<>>

\* Lines 107-110.
with_make(ss, m) ==
    IF m # ss.selected_make
    THEN [ss EXCEPT !.selected_make = m, !.selected_version = None,
                    !.pdf_bytes = None]
    ELSE ss

MakeBlock ==
    /\ pc = "make"
    /\ data_loaded
    /\ \E v \in selectbox(makes(session_state.nhtsa_data),
                          session_state.selected_make, None) :
        /\ selected_make' = v
        /\ session_state' = with_make(session_state, v)
        /\ docs' = IF v # session_state.selected_make THEN {} ELSE docs
        /\ events' = IF v # session_state.selected_make
                      THEN events \cup {"make"} \cup dropped(session_state)
                      ELSE events
        /\ pc' = IF v # None THEN "version" ELSE "main"
    /\ UNCHANGED << memo, selected_year, selected_version, make_data, pdf_url,
                    all_data, page, ui, outcome, recorded, log, abandoned, first >>

\* Line 95 is false: the block is skipped and assigns nothing.
MakeSkipped ==
    /\ pc = "make"
    /\ ~data_loaded
    /\ pc' = "main"
    /\ UNCHANGED << session_state, memo, selected_year, selected_make,
                    selected_version, make_data, pdf_url, all_data, page, ui,
                    outcome, recorded, log, abandoned, first, docs, events >>

(***************************************************************************)
(* Lines 112-131: the version block.                                       *)
(***************************************************************************)
\* Mutant of with_version: the version change also empties the stored make.
with_version_drop_make(ss, v) ==
    IF v # ss.selected_version
    THEN [ss EXCEPT !.selected_version = v, !.selected_make = None,
                    !.pdf_bytes = None]
    ELSE ss

\* Lines 129-131.
with_version(ss, v) ==
    IF v # ss.selected_version
    THEN [ss EXCEPT !.selected_version = v, !.pdf_bytes = None]
    ELSE ss

VersionBlock ==
    /\ pc = "version"
    /\ \E frame \in sort_values(filter_make(session_state.nhtsa_data, selected_make)) :
        /\ make_data' = frame
        /\ \E v \in selectbox(versions(frame), session_state.selected_version, None) :
            /\ selected_version' = v
            /\ session_state' = with_version(session_state, v)
            /\ events' = IF v # session_state.selected_version
                          THEN events \cup {"version"} \cup dropped(session_state)
                          ELSE events
    /\ pc' = "main"
    /\ UNCHANGED << memo, selected_year, selected_make, pdf_url, all_data, page,
                    ui, outcome, recorded, log, abandoned, first, docs >>

\* Lines 115-116 with the run stopped at the version box (line 121): the
\* frame is derived, no version is read or stored.
VersionStopped ==
    /\ pc = "version"
    /\ \E frame \in sort_values(filter_make(session_state.nhtsa_data, selected_make)) :
           make_data' = frame
    /\ EndRun("stopped")
    /\ UNCHANGED << session_state, memo, selected_year, selected_make,
                    selected_version, pdf_url, all_data, page, ui, recorded,
                    log, abandoned, first, docs, events >>

(***************************************************************************)
(* Lines 133-195: the main content area.                                   *)
(***************************************************************************)
\* Line 139.
version_name == split_first(selected_version)

\* Lines 168-170: the name of the file offered for download.
filename ==
    str(selected_year) \o <<"_">> \o clean_filename(selected_make)
        \o <<"_">> \o clean_filename(version_name) \o <<".", "p", "d", "f">>

\* The frame whose .iloc[0] line 140 takes.
matches == filter_name(make_data, version_name)

\* Line 137 reads selected_make, which only line 99 assigns.
make_unassigned == selected_year # NoYear /\ selected_make = Undefined

\* Line 137, when it can be evaluated.
all_selected ==
    /\ selected_year # NoYear
    /\ selected_make # Undefined /\ selected_make # None
    /\ selected_version # None

\* Line 195: not everything is selected.
MainInfo ==
    /\ pc = "main"
    /\ ~make_unassigned
    /\ ~all_selected
    /\ ui' = ui \cup {"info_please_select"}
    /\ EndRun("completed")
    /\ UNCHANGED << session_state, memo, selected_year, selected_make,
                    selected_version, make_data, pdf_url, all_data, page, recorded, log, abandoned,
                    first, docs, events >>

\* Line 137 raises NameError: no handler encloses it, the run is aborted.
MainNameError ==
    /\ pc = "main"
    /\ make_unassigned
    /\ EndRun("NameError")
    /\ UNCHANGED << session_state, memo, selected_year, selected_make,
                    selected_version, make_data, pdf_url, all_data, page, ui,
                    recorded, log, abandoned, first, docs, events >>

\* Line 140 raises IndexError on an empty frame, before the try of line 147.
MainIndexError ==
    /\ pc = "main"
    /\ ~make_unassigned
    /\ all_selected
    /\ matches = <<>>
    /\ EndRun("IndexError")
    /\ UNCHANGED << session_state, memo, selected_year, selected_make,
                    selected_version, make_data, pdf_url, all_data, page, ui,
                    recorded, log, abandoned, first, docs, events >>

\* Mutant of needs_fetch: the document is requested in every run.
needs_fetch_always(ss) == TRUE

\* Line 156: whether the document is requested in this run.
needs_fetch(ss) == ss.pdf_bytes = None

\* Mutant of bytes_of: the body is kept whatever the status.
bytes_of_any(answer) == answer.content

\* Lines 158-163: the bytes kept after an answer that did not raise.
bytes_of(answer) == IF answer.status_code = 200 THEN answer.content ELSE None

\* Line 185 passes height=auto, and no statement defines auto.
auto_defined == FALSE

\* Lines 191-193, in the order rendered.
except_block == <<"error_accessing_pdf", "info_use_link">>

\* Lines 165-189, given the bytes line 166 sees, in the order rendered:
\* the download button and then the viewer, whose call raises NameError
\* (line 185) and passes to the except block; or the error of line 189.
show_document(bytes) ==
    IF bytes # None
    THEN <<"download_button">> \o
             (IF auto_defined THEN <<"pdf_viewer">> ELSE except_block)
    ELSE <<"error_could_not_load">>

\* Lines 142-153, in the order rendered.
document_head == <<"write_showing", "document_actions", "open_in_new_tab">>

\* Lines 156-193: what the block renders after the link of line 153, in
\* the order rendered, when the document was requested and answered.
after_answer(answer) ==
    IF answer.raised THEN except_block
    ELSE (IF answer.status_code = 200 THEN <<>>
          ELSE <<"warning_status", "info_use_link">>)
             \o show_document(bytes_of(answer))

\* What a run has rendered of the elements elems: all of them when it runs
\* to the end; when it is stopped, those before the one it is stopped at.
rendered(elems, stop) ==
    IF stop THEN {{elems[i] : i \in 1..(n - 1)} : n \in DOMAIN elems}
    ELSE {Range(elems)}

selection == << selected_year, selected_make, selected_version >>

\* Lines 139-193.  With stop the run is stopped at one of the Streamlit
\* calls that follow the link of line 153 (lines 161, 162, 172, 189, 192,
\* 193): what was assigned before that call stays assigned.
Document(stop) ==
    /\ pc = "main"
    /\ ~make_unassigned
    /\ all_selected
    /\ matches # <<>>
    /\ pdf_url' = matches[1].url
    /\ IF needs_fetch(session_state)
       THEN \E answer \in Answers(matches[1].url) :
              /\ \E shown \in rendered(after_answer(answer), stop) :
                     ui' = ui \cup Range(document_head) \cup shown
              /\ session_state' =
                     IF answer.raised THEN session_state
                     ELSE [session_state EXCEPT !.pdf_bytes = bytes_of(answer)]
              /\ docs' = IF ~answer.raised /\ answer.status_code = 200
                         THEN docs \cup {selection} ELSE docs
              /\ events' = events \cup
                     {IF answer.raised THEN "get_raised"
                      ELSE IF answer.status_code = 200 THEN "get_200"
                      ELSE "get_failed"}
       ELSE /\ \E shown \in rendered(show_document(session_state.pdf_bytes), stop) :
                   ui' = ui \cup Range(document_head) \cup shown
            /\ UNCHANGED << session_state, docs, events >>
    /\ EndRun(IF stop THEN "stopped" ELSE "completed")
    /\ UNCHANGED << memo, selected_year, selected_make, selected_version,
                    make_data, all_data, page, recorded, log, abandoned, first >>

\* The block runs to its end.
MainDocument == Document(FALSE)

\* The block is stopped after the link of line 153.
DocumentStopped == Document(TRUE)

\* The block is stopped at one of the three sidebar calls of lines 149-153:
\* the text of line 142 is rendered and pdf_url is assigned (line 145), the
\* document is not requested.
DocumentStoppedEarly ==
    /\ pc = "main"
    /\ ~make_unassigned
    /\ all_selected
    /\ matches # <<>>
    /\ pdf_url' = matches[1].url
    /\ \E shown \in rendered(document_head, TRUE) \ {{}} : ui' = ui \cup shown
    /\ EndRun("stopped")
    /\ UNCHANGED << session_state, memo, selected_year, selected_make,
                    selected_version, make_data, all_data, page, recorded, log,
                    abandoned, first, docs, events >>

\* The run is stopped at the make box (line 99), at the title (line 134),
\* at the text of line 142 or at the message of line 195: nothing is
\* rendered or assigned past what the handlers above have done.
StopRun ==
    /\ pc \in {"make", "main"}
    /\ EndRun("stopped")
    /\ UNCHANGED << session_state, memo, selected_year, selected_make,
                    selected_version, make_data, pdf_url, all_data, page, ui,
                    recorded, log, abandoned, first, docs, events >>

Next ==
    \/ BeginRun
    \/ YearUnchanged
    \/ YearChangedCached
    \/ YearChangedStopped
    \/ YearChangedFetch
    \/ FetchPage
    \/ FetchStopped
    \/ MakeBlock
    \/ MakeSkipped
    \/ VersionBlock
    \/ VersionStopped
    \/ MainInfo
    \/ MainNameError
    \/ MainIndexError
    \/ MainDocument
    \/ DocumentStopped
    \/ DocumentStoppedEarly
    \/ StopRun

Spec == Init /\ [][Next]_vars

(***************************************************************************)
(* The page loop runs in the one thread that executes the script: while it *)
(* can take another turn (lines 34-51) it does.  Nothing is assumed about  *)
(* the user, whose next interaction (BeginRun) may never come.             *)
(***************************************************************************)
LiveSpec == Spec /\ WF_vars(FetchPage)

(***************************************************************************)
(* The make and version handlers as functions of what the session stores.  *)
(* No run of the script leaves a make or a version stored that the active  *)
(* table does not hold: lines 88-90 and 108-110 empty them before the      *)
(* table or the make changes.  The branch of lines 102 and 124 for such a  *)
(* value is therefore exercised from sessions that hold the listing of     *)
(* the current year, as a completed call of line 91 stores it, and a make  *)
(* and a version drawn from the values of that listing and values it does  *)
(* not hold.                                                               *)
(***************************************************************************)
\* The rows of the first n pages of year y.
RECURSIVE Listing(_, _)
Listing(y, n) == IF n = 0 THEN <<>> ELSE Listing(y, n - 1) \o PageOf(y, n)

\* What fetch_nhtsa_data(CurrentYear) returns when every page is read.
Loaded == DataFrame(Listing(CurrentYear, NumPages(CurrentYear)))

\* The requests of that call: the pages with rows, then the empty page.
LoadedLog ==
    [p \in 1..(NumPages(CurrentYear) + 1) |->
        [page |-> p,
         response |-> IF p <= NumPages(CurrentYear)
                      THEN Response(FALSE, PageOf(CurrentYear, p))
                      ELSE Response(FALSE, <<>>)]]

\* A make and a version label that no listing holds.
OtherMake == <<"C">>
OtherVersion == <<"C", " ", "(", "1", ")">>

StoredMakes ==
    {None, OtherMake} \cup {r.manufacturername : r \in Range(Loaded.rows)}
StoredVersions ==
    {None, OtherVersion} \cup {label(r) : r \in Range(Loaded.rows)}

AnyStored ==
    /\ \E m \in StoredMakes : \E v \in StoredVersions :
           session_state = [selected_year |-> CurrentYear, selected_make |-> m,
                            selected_version |-> v, nhtsa_data |-> Loaded,
                            pdf_bytes |-> None]
    /\ memo = [y \in year_set |-> IF y = CurrentYear THEN Loaded
                                   ELSE DataFrameNone]
    /\ pc = "idle"
    /\ selected_year = CurrentYear
    /\ selected_make = Undefined
    /\ selected_version = Undefined
    /\ make_data = <<>>
    /\ pdf_url = Undefined
    /\ all_data = <<>>
    /\ page = 1
    /\ ui = {}
    /\ outcome = "completed"
    /\ recorded = [y \in year_set |-> IF y = CurrentYear
                                       THEN {fetch_message(Loaded.rows)}
                                       ELSE {}]
    /\ log = [y \in year_set |-> IF y = CurrentYear THEN LoadedLog ELSE <<>>]
    /\ abandoned = {}
    /\ first = memo
    /\ docs = {}
    /\ events = {}

StoredSpec == (Init \/ AnyStored) /\ [][Next]_vars

(***************************************************************************)
(* Properties.                                                             *)
(***************************************************************************)
selection_events == {"year", "make", "version"}
get_events == {"get_200", "get_failed", "get_raised"}

\* The rows of the first n answers logged in L, one after the other.
RECURSIVE Flatten(_, _)
Flatten(L, n) == IF n = 0 THEN <<>> ELSE Flatten(L, n - 1) \o L[n].response.rows

\* The number of rows of the first n answers logged in L.
RECURSIVE SumRows(_, _)
SumRows(L, n) == IF n = 0 THEN 0 ELSE SumRows(L, n - 1) + Len(L[n].response.rows)

\* fetch_nhtsa_data(y) has returned at least once.
Returned(y) == ~first[y].isNone

\* The last answer to a listing request for y was an exception.
Aborted(y) == log[y] # <<>> /\ log[y][Len(log[y])].response.error

\* The year box returned a new year, the year handler has stored it, and
\* nothing below the handler has run since: the run is at the make block,
\* or it was stopped before the make block.
after_year_event ==
    /\ "year" \in events
    /\ \/ pc = "make"
       \/ pc = "idle" /\ outcome = "stopped" /\ selected_make = Undefined

\* C1: right after a year change is applied, make, version and the cached
\* bytes are empty; right after the make change handler, version and bytes
\* are empty; right after the version change handler, the bytes are empty.
C1_CascadingReset ==
    /\ after_year_event =>
           /\ session_state.selected_make = None
           /\ session_state.selected_version = None
           /\ session_state.pdf_bytes = None
    /\ (pc = "version" /\ "make" \in events) =>
           /\ session_state.selected_version = None
           /\ session_state.pdf_bytes = None
    /\ (pc = "main" /\ "version" \in events) =>
           session_state.pdf_bytes = None

\* C2: a second call of fetch_nhtsa_data(y) in a session sends no request,
\* so the remote listing of a year is paginated at most once in a session:
\* no call goes to the remote for a year for which requests were sent by
\* an earlier call.
C2_PaginatedOnce == pc = "fetch" => selected_year \notin abandoned

\* C3: pages are requested as 1, 2, 3, ...; when the loop ends at an empty
\* page, that page is the last one requested, and the table returned is the
\* rows of the pages before it in page order, as many as those pages hold.
C3_PaginationResult ==
    \A y \in year_set :
        LET L == log[y]
            n == Len(L)
        IN  /\ \A i \in 1..n : L[i].page = i
            /\ \A i \in 1..n : L[i].response.rows = <<>> => i = n
            /\ (Returned(y) /\ ~Aborted(y)) =>
                   /\ n >= 1
                   /\ L[n].response.rows = <<>>
                   /\ first[y].rows = Flatten(L, n - 1)
                   /\ Len(first[y].rows) = SumRows(L, n - 1)
                   /\ memo[y] = first[y]

\* A listing of MaxPages pages with rows, ended by an empty page.
C3_Witness ==
    \E y \in year_set :
        /\ Returned(y) /\ ~Aborted(y)
        /\ Len(log[y]) = MaxPages + 1
        /\ Len(first[y].rows) > Len(log[y][1].response.rows)

\* C4: the page loop of fetch_nhtsa_data does not run for ever: a call that
\* goes to the remote leaves the loop; it then returns and the run goes on
\* to the make block, unless the run is stopped at the message that
\* follows the loop.
C4_FetchTerminates ==
    (pc = "fetch") ~> (pc = "make" \/ (pc = "idle" /\ outcome = "stopped"))

\* The longest loop has returned: every page the remote holds was read.
C4_Witness == pc = "make" /\ "success_found" \in ui /\ page = MaxPages + 1

\* C5: when page N fails, the failure is shown, N is the last page
\* requested (it is not requested again, nor is any page after it), and the
\* table returned is the rows of pages 1..N-1.
C5_ListingError ==
    /\ \A y \in year_set :
          LET L == log[y]
              n == Len(L)
          IN  /\ \A i \in 1..n : L[i].response.error => i = n
              /\ Aborted(y) =>
                     /\ Returned(y)
                     /\ \A i \in 1..n : L[i].page = i
                     /\ first[y].rows = Flatten(L, n - 1)
                     /\ memo[y] = first[y]
    /\ (pc = "make" /\ {"warning_no_data", "success_found"} \cap ui # {}
            /\ Aborted(selected_year)) =>
           /\ "error_fetching" \in ui
           /\ session_state.nhtsa_data = first[selected_year]

\* Page 2 failed and the rows of page 1 were kept.
C5_Witness ==
    /\ pc = "make"
    /\ "error_fetching" \in ui
    /\ Len(log[selected_year]) > 1
    /\ session_state.nhtsa_data.rows # <<>>

\* C6 as claimed: a document is never fetched (status 200) for a selection
\* whose document was already fetched.  (docs remembers the fetched
\* selections of the current year and make, which is enough to see one
\* fetched twice.)
C6_FetchedOncePerSelection ==
    [][("get_200" \in events' /\ "get_200" \notin events) =>
           selection \notin docs]_vars

\* The document is requested in this step.
document_requested ==
    get_events \cap events' # {} /\ get_events \cap events = {}

\* The cached bytes are replaced or given up in this step.
bytes_given_up ==
    /\ session_state.pdf_bytes # None
    /\ session_state'.pdf_bytes # session_state.pdf_bytes

\* The make or the version handler stores a new value in this step.
make_or_version_changed ==
    \/ "make" \in events' \ events
    \/ "version" \in events' \ events

\* The year handler, having stored a new year, gets to its end (line 92)
\* in this step.
year_handler_ended ==
    pc \in {"year", "fetch"} /\ pc' = "make" /\ "year" \in events'

\* C6 as amended: the document is requested only while no bytes are cached;
\* cached bytes are given up only by a handler that stores a new year, make
\* or version, and then for nothing; the make and the version handler
\* always give them up, the year handler when it gets to its end.
C6_FetchedOnlyWhenNotCached ==
    [][/\ document_requested => session_state.pdf_bytes = None
       /\ bytes_given_up =>
              /\ session_state'.pdf_bytes = None
              /\ pc \in {"year", "fetch", "make", "version"}
              /\ selection_events \cap events' # {}
       /\ make_or_version_changed => session_state'.pdf_bytes = None
       /\ year_handler_ended => session_state'.pdf_bytes = None]_vars

\* A run with the selection unchanged showed the cached bytes, no request.
C6_Witness ==
    /\ pc = "idle"
    /\ events = {}
    /\ session_state.pdf_bytes # None
    /\ "download_button" \in ui

\* C7: after an answer with a status other than 200 nothing is cached, no
\* download and no preview are offered, the link is (it is rendered before
\* the request), the run has ended and the session takes the next
\* interaction; a run that was not stopped has also shown the warning.
C7_DocumentFetchFailure ==
    "get_failed" \in events =>
        /\ session_state.pdf_bytes = None
        /\ "download_button" \notin ui
        /\ "pdf_viewer" \notin ui
        /\ "open_in_new_tab" \in ui
        /\ outcome \in {"completed", "stopped"}
        /\ outcome = "completed" => "warning_status" \in ui
        /\ ENABLED BeginRun

\* The document endpoint answered 404.
C7_Witness == pc = "idle" /\ "get_failed" \in events

\* C8: with a year selected whose listing has no rows the run completes
\* without an unhandled error, make, version and bytes are empty, and the
\* state differs from the one in which no year is selected.
C8_EmptyListing ==
    (/\ pc = "idle"
     /\ outcome \notin {"none", "stopped"}
     /\ session_state.selected_year # NoYear
     /\ ~session_state.nhtsa_data.isNone
     /\ session_state.nhtsa_data.rows = <<>>) =>
        /\ outcome = "completed"
        /\ session_state.selected_make = None
        /\ session_state.selected_version = None
        /\ session_state.pdf_bytes = None
        /\ session_state.nhtsa_data # DataFrameNone

\* C9: when no row of the selected make has the name taken from the version
\* label, the run still completes, with an error message and no bytes cached.
C9_NotFound ==
    (pc = "idle" /\ outcome # "stopped" /\ all_selected /\ matches = <<>>) =>
        /\ outcome = "completed"
        /\ "error_accessing_pdf" \in ui
        /\ session_state.pdf_bytes = None

\* C10: a listing request is repeated only on the user's reselection, and
\* reselecting a year whose fetch was aborted requests its listing again.
C10_RetryOnReselect ==
    [][/\ (\E y \in year_set : Aborted(y) /\ log'[y] # log[y]) =>
              "year" \in events
       /\ (/\ pc = "year"
           /\ selected_year # session_state.selected_year
           /\ Aborted(selected_year)) =>
              (pc' = "fetch" \/ outcome' = "stopped")]_vars

\* C11: when the make block runs (a year is selected and the active table
\* has rows), the make options are exactly the manufacturer names that occur
\* in the active table, each once, in ascending order.
C11_MakeOptions ==
    (pc = "make" /\ data_loaded) =>
        LET rows == session_state.nhtsa_data.rows
            opts == makes(session_state.nhtsa_data)
        IN  /\ \A i \in DOMAIN rows :
                   \E k \in DOMAIN opts : opts[k] = rows[i].manufacturername
            /\ \A k \in DOMAIN opts :
                   \E i \in DOMAIN rows : opts[k] = rows[i].manufacturername
            /\ \A j, k \in DOMAIN opts : j < k => StrLess(opts[j], opts[k])

\* The make block is reached with a table of two makes, each named by
\* more than one row.
C11_Witness ==
    /\ pc = "make"
    /\ data_loaded
    /\ makes(session_state.nhtsa_data) = << <<"F">>, <<"G">> >>
    /\ Len(session_state.nhtsa_data.rows) = 4

\* The rows in descending letterdate order with equal dates in their
\* original order: what a stable sort gives.
RECURSIVE StableOrder(_, _)
StableOrder(rows, I) ==
    IF I = {} THEN <<>>
    ELSE LET top == {i \in I : \A j \in I :
                        ~StrLess(rows[i].letterdate, rows[j].letterdate)}
             i == CHOOSE i \in top : \A j \in top : i <= j
         IN  <<rows[i]>> \o StableOrder(rows, I \ {i})

\* The version block has run in the current run.
version_block_ran ==
    /\ pc \in {"main", "idle"}
    /\ outcome # "stopped"
    /\ selected_make # Undefined
    /\ selected_make # None

\* C12: the version options are the labels "name (letterdate)" of the rows
\* of the active table whose manufacturer is the selected make, one per
\* row, by letterdate descending, rows of equal letterdate in fetch order.
C12_VersionOptions ==
    version_block_ran =>
        LET rows == filter_make(session_state.nhtsa_data, selected_make)
        IN  versions(make_data) = versions(StableOrder(rows, DOMAIN rows))

\* The text with the characters outside [A-Za-z0-9, whitespace, '-']
\* removed and each run of whitespace replaced with one underscore.
RECURSIVE CollapseRuns(_, _)
CollapseRuns(t, inRun) ==
    IF t = <<>> THEN <<>>
    ELSE IF Head(t) \in Whitespace
         THEN (IF inRun THEN <<>> ELSE <<"_">>) \o CollapseRuns(Tail(t), TRUE)
         ELSE <<Head(t)>> \o CollapseRuns(Tail(t), FALSE)
Sanitized(text) ==
    LET allowed(c) == c \in Letters \cup Range(DigitChars) \cup Whitespace \cup {"-"}
    IN  CollapseRuns(SelectSeq(text, allowed), FALSE)

FordMotorCo ==
    <<"F", "o", "r", "d", " ", "M", "o", "t", "o", "r", " ", "C", "o", ".">>
GMChevrolet == <<"G", "M", "/", "C", "h", "e", "v", "r", "o", "l", "e", "t">>

\* C13: clean_filename removes the characters outside [A-Za-z0-9,
\* whitespace, '-'] and replaces each run of whitespace with one underscore,
\* so its result has no whitespace ("Ford Motor Co." gives "Ford_Motor_Co",
\* "GM/Chevrolet" gives "GMChevrolet"); the file offered for download is
\* named "{year}_{sanitised make}_{sanitised name}.pdf".
C13_Filename ==
    /\ clean_filename(FordMotorCo) =
           <<"F", "o", "r", "d", "_", "M", "o", "t", "o", "r", "_", "C", "o">>
    /\ clean_filename(GMChevrolet) =
           <<"G", "M", "C", "h", "e", "v", "r", "o", "l", "e", "t">>
    /\ "download_button" \in ui =>
           /\ clean_filename(selected_make) = Sanitized(selected_make)
           /\ clean_filename(version_name) = Sanitized(version_name)
           /\ Range(filename) \cap Whitespace = {}
           /\ filename = str(selected_year) \o <<"_">> \o Sanitized(selected_make)
                             \o <<"_">> \o Sanitized(version_name)
                             \o <<".", "p", "d", "f">>

\* The row of the active table that the stored selection names.
IsSelectedRow(r) ==
    /\ r.manufacturername = session_state.selected_make
    /\ label(r) = session_state.selected_version

\* C14: the document resolved for a complete selection is the selected
\* one: the URL the script takes (and then links and fetches) is the URL of
\* a row of the active table whose manufacturer is the selected make and
\* whose label is the selected version, also when rows of the make share a
\* name with different letterdates.
C14_ResolvedDocument ==
    (pc = "idle" /\ pdf_url # Undefined) =>
        \E i \in DOMAIN session_state.nhtsa_data.rows :
            /\ IsSelectedRow(session_state.nhtsa_data.rows[i])
            /\ session_state.nhtsa_data.rows[i].url = pdf_url

\* The labels of the rows of the active table that belong to the stored make.
stored_make_labels ==
    {label(r) : r \in Range(filter_make(session_state.nhtsa_data,
                                        session_state.selected_make))}

\* The make box is about to be built and the stored make is not among its
\* options.
stale_make ==
    /\ pc = "make"
    /\ data_loaded
    /\ session_state.selected_make
           \notin Range(makes(session_state.nhtsa_data))

\* The version box is about to be built and the stored version is not
\* among the labels of the selected make.
stale_version ==
    /\ pc = "version"
    /\ session_state.selected_version
           \notin {label(r) : r \in Range(filter_make(session_state.nhtsa_data,
                                                      selected_make))}

\* The make handler (lines 107-110) has run in the current or last run.
make_handler_ran ==
    pc \in {"version", "main", "idle"} /\ selected_make # Undefined

\* The version handler (lines 129-131) has run in the current or last run.
version_handler_ran ==
    pc \in {"main", "idle"} /\ selected_version # Undefined

\* C15: a stored make (version) that is not among the options derived from
\* the active table is passed to the box as no index, so the box starts
\* empty as with nothing stored, and once the make (version) handler has
\* run the stored make (version) is empty or one of the options derived
\* from the active table.
C15_StaleRejected ==
    /\ stale_make =>
           /\ index_of(makes(session_state.nhtsa_data),
                        session_state.selected_make, None) = {}
           /\ None \in selectbox(makes(session_state.nhtsa_data),
                                 session_state.selected_make, None)
    /\ stale_version =>
           \A frame \in sort_values(filter_make(session_state.nhtsa_data,
                                                selected_make)) :
               /\ index_of(versions(frame),
                            session_state.selected_version, None) = {}
               /\ None \in selectbox(versions(frame),
                                     session_state.selected_version, None)
    /\ make_handler_ran =>
           \/ session_state.selected_make = None
           \/ session_state.selected_make
                  \in Range(makes(session_state.nhtsa_data))
    /\ version_handler_ran =>
           \/ session_state.selected_version = None
           \/ /\ session_state.selected_make # None
              /\ session_state.selected_version \in stored_make_labels

\* A make that the table does not hold was stored, the make box started
\* empty and was left empty: the make handler stored None in its place,
\* and the run went on as with no make selected.
C15_Witness ==
    /\ pc = "main"
    /\ "make" \in events
    /\ "year" \notin events
    /\ selected_make = None
    /\ session_state.selected_make = None
    /\ session_state.selected_version = None

\* How far the stored selection has got: 0 no year, 1 year, 2 make, 3 version.
level(ss) ==
    IF ss.selected_year = NoYear THEN 0
    ELSE IF ss.selected_make = None THEN 1
    ELSE IF ss.selected_version = None THEN 2
    ELSE 3

\* The handler in which the selection gets to level n, which is also the
\* marker that handler leaves when its box returned a new value.
handler_of(n) == CASE n = 1 -> "year" [] n = 2 -> "make" [] n = 3 -> "version"

hierarchy ==
    /\ session_state.selected_version # None =>
           session_state.selected_make # None
    /\ session_state.selected_make # None =>
           /\ session_state.selected_year # NoYear
           /\ ~session_state.nhtsa_data.isNone
           /\ session_state.nhtsa_data.rows # <<>>

may_stay_empty ==
    /\ (pc = "make" /\ data_loaded /\ session_state.selected_make = None) =>
           None \in selectbox(makes(session_state.nhtsa_data),
                              session_state.selected_make, None)
    /\ (pc = "version" /\ session_state.selected_version = None) =>
           None \in selectbox(versions(filter_make(session_state.nhtsa_data,
                                                   selected_make)),
                              session_state.selected_version, None)

one_level_per_event ==
    level(session_state') > level(session_state) =>
        /\ level(session_state') = level(session_state) + 1
        /\ pc = handler_of(level(session_state'))
        /\ handler_of(level(session_state')) \in events' \ events

\* C16: in every state a stored version implies a stored make, and a stored
\* make implies a stored year whose active table has rows; the selection
\* gets one level further (no year, year, make, version) only in a handler
\* step in which a box returned a value other than the stored one, one
\* level per such step, and a box whose stored value is empty can stay
\* empty.
C16_SelectionHierarchy ==
    /\ [](hierarchy /\ may_stay_empty)
    /\ [][one_level_per_event]_vars

\* The selection has got from a make to a version in the version handler.
C16_Witness ==
    /\ pc = "main"
    /\ "version" \in events
    /\ "make" \notin events
    /\ level(session_state) = 3

\* C17: between runs, cached bytes imply that year, make and version are
\* all stored and that the bytes are the status-200 answer for the URL of
\* the stored selection, that is of the row of the active table with the
\* stored make and the stored version label.
C17_CachedDocumentMatches ==
    (pc = "idle" /\ session_state.pdf_bytes # None) =>
        /\ level(session_state) = 3
        /\ \E i \in DOMAIN session_state.nhtsa_data.rows :
               /\ IsSelectedRow(session_state.nhtsa_data.rows[i])
               /\ session_state.pdf_bytes =
                      Content(session_state.nhtsa_data.rows[i].url)

\* A step of fetch_nhtsa_data, or of the assignment of its result.
fetcher_step ==
    \/ log' # log
    \/ memo' # memo
    \/ session_state'.nhtsa_data # session_state.nhtsa_data

fetcher_frame ==
    /\ fetcher_step =>
           /\ "year" \in events'
           /\ session_state'.selected_year = selected_year
           /\ \A y \in year_set \ {selected_year} :
                  log'[y] = log[y] /\ memo'[y] = memo[y]
    /\ session_state'.nhtsa_data # session_state.nhtsa_data =>
           session_state'.nhtsa_data = memo'[selected_year]
    /\ session_state'.selected_year # session_state.selected_year =>
           pc = "year" /\ pc' \in {"fetch", "make", "idle"}
    /\ pc \in {"make", "version"} =>
           /\ session_state'.selected_year = session_state.selected_year
           /\ session_state'.nhtsa_data = session_state.nhtsa_data
    /\ pc = "version" =>
           session_state'.selected_make = session_state.selected_make

\* C18: fetch_nhtsa_data is called only in a run whose year box returned a
\* year other than the stored one, with that year, and what it returns
\* becomes the active table; the make handler and the version handler
\* leave the stored year and the active table as they are, and the version
\* handler leaves the stored make as it is.
C18_FetcherFrame ==
    /\ [][fetcher_frame]_vars
    /\ []((pc = "make" /\ "year" \in events) =>
              /\ session_state.selected_year = selected_year
              /\ session_state.nhtsa_data = memo[selected_year])
    /\ []((pc = "fetch" \/ "year" \in events) =>
              session_state.selected_year = selected_year)

\* The listing of a newly selected year was read from the remote and is
\* the active table, in place of the table of the year selected before.
C18_Witness ==
    /\ pc = "make"
    /\ "year" \in events
    /\ "success_found" \in ui
    /\ session_state.nhtsa_data = memo[selected_year]
    /\ \E y \in year_set \ {selected_year} : ~memo[y].isNone

====
